---- MODULE Spec2Model ----
(***************************************************************************)
(* Model of the equity-compass tax / vesting calculation engine            *)
(* (utils/calculations.ts with types.ts, kept in src/unnamed/part_001).    *)
(*                                                                         *)
(* Numbers are exact scaled integers:                                      *)
(*   - rates are held in 1/10000 (RateScale), so 0.144 is 1440;            *)
(*   - share counts are held in 1/ShareUnit of a share, ShareUnit being    *)
(*     16 x RateScale, so that every tranche (x 0.25, x 0.75 / 12, / 16)   *)
(*     and every share count the code derives from a rate is an integer;   *)
(*     for whole totalShares these tranche computations are exact in IEEE  *)
(*     doubles as well;                                                    *)
(*   - prices are whole dollars, values are dollars x ShareUnit;           *)
(*   - bracket rates are held in 1/1000, progressive tax in 1/1000 dollar. *)
(* A JavaScript Date is its time value, counted in ticks of 1/TicksPerDay  *)
(* day since 1970-01-01T00:00Z; the runtime's local time zone is UTC.      *)
(* A "YYYY-MM-DD" string is the record [y, m, d].  An optional field is    *)
(* the empty set when absent (undefined) and {v} when present.             *)
(***************************************************************************)
EXTENDS Integers, Sequences, FiniteSets, TLC

VARIABLES
    pc,                \* which query ran last ("idle" before any)
    grant,             \* Grant argument
    client,            \* Client argument
    simulateSellAll,   \* generateVestingSchedule's flag
    now,               \* the evaluation instant, new Date()
    plannedExercises,  \* PlannedExercise[] argument
    schedule,          \* VestingEvent[] returned by generateVestingSchedule
    status,            \* record returned by getGrantStatus
    rates,             \* record returned by getEffectiveRates
    taxableIncome,     \* calculateProgressiveTax argument
    filingStatus,      \* calculateProgressiveTax argument
    tax,               \* number returned by calculateProgressiveTax
    isoArgs,           \* calculateISOScenarios arguments besides the client
    scenario,          \* ISOScenario returned by calculateISOScenarios
    amt,               \* calculateAMTRoom's local variables
    amtRoom,           \* record returned by calculateAMTRoom
    sharesToExercise,  \* ISOPlanner's number field
    strategyMode       \* ISOPlanner's strategy: "buy_hold" or "cashless"

vars == <<pc, grant, client, simulateSellAll, now, plannedExercises,
          schedule, status, rates, taxableIncome, filingStatus, tax,
          isoArgs, scenario, amt, amtRoom, sharesToExercise, strategyMode>>

----------------------------------------------------------------------------
(* Units *)

RateScale == 10000
ShareUnit == 16 * RateScale
TicksPerDay == 2

\* The JavaScript number NaN (0 / 0 in calculateEvent): a value apart from
\* every number the model computes.
NaN == -2000000000
IsNaN(x) == x = NaN

(* Optional values *)
Undefined == {}
Some(v) == {v}
IsDefined(x) == x # {}
ValueOf(x) == CHOOSE v \in x : TRUE

Max(a, b) == IF a >= b THEN a ELSE b
Min(a, b) == IF a <= b THEN a ELSE b

----------------------------------------------------------------------------
(* Calendar: the proleptic Gregorian calendar of ECMAScript Date, UTC.    *)

IsLeap(y) == (y % 4 = 0 /\ y % 100 # 0) \/ y % 400 = 0

DaysInMonth(y, m) ==
    IF m = 2 THEN (IF IsLeap(y) THEN 29 ELSE 28)
    ELSE IF m \in {4, 6, 9, 11} THEN 30 ELSE 31

\* Day number (days since 1970-01-01) of day d of month m (1..12) of year y;
\* d may lie outside the month, as in ECMAScript MakeDay.
DaysFromCivil(y, m, d) ==
    LET yy  == IF m <= 2 THEN y - 1 ELSE y
        era == yy \div 400
        yoe == yy - era * 400
        mp  == IF m > 2 THEN m - 3 ELSE m + 9
        doy == (153 * mp + 2) \div 5 + d - 1
        doe == yoe * 365 + yoe \div 4 - yoe \div 100 + doy
    IN  era * 146097 + doe - 719468

\* The calendar date of a day number.
CivilFromDays(z) ==
    LET zz  == z + 719468
        era == zz \div 146097
        doe == zz - era * 146097
        yoe == (doe - doe \div 1460 + doe \div 36524 - doe \div 146096) \div 365
        doy == doe - (365 * yoe + yoe \div 4 - yoe \div 100)
        mp  == (5 * doy + 2) \div 153
        dd  == doy - (153 * mp + 2) \div 5 + 1
        mm  == IF mp < 10 THEN mp + 3 ELSE mp - 9
        yy  == yoe + era * 400 + (IF mm <= 2 THEN 1 ELSE 0)
    IN  [y |-> yy, m |-> mm, d |-> dd]

\* new Date("YYYY-MM-DD"): midnight UTC of that day.
ParseDate(s) == DaysFromCivil(s.y, s.m, s.d) * TicksPerDay

\* date.toISOString().split('T')[0]
ToISODate(t) == CivilFromDays(t \div TicksPerDay)

\* addMonths: d.setMonth(d.getMonth() + months) keeps the day of the month
\* and the time of day; a day past the end of the target month runs over
\* into the following month.
addMonths(date, months) ==
    LET c   == CivilFromDays(date \div TicksPerDay)
        mon == c.m - 1 + months
        yr  == c.y + mon \div 12
        mo  == mon % 12
    IN  DaysFromCivil(yr, mo + 1, c.d) * TicksPerDay + (date % TicksPerDay)

----------------------------------------------------------------------------
(* Rate tables *)

\* STATE_TAX_RATES, in 1/RateScale.
StateCodes == {"CA", "NY", "TX", "FL", "WA", "MA", "NJ", "Other"}

STATE_TAX_RATES ==
    [s \in StateCodes |->
        CASE s = "CA" -> 1440
          [] s = "NY" -> 1090
          [] s = "TX" -> 0
          [] s = "FL" -> 0
          [] s = "WA" -> 700
          [] s = "MA" -> 500
          [] s = "NJ" -> 1075
          [] s = "Other" -> 500]

\* STATE_TAX_RATES[code]: undefined for a code that is not a key.
StateTableLookup(code) ==
    IF code \in DOMAIN STATE_TAX_RATES THEN Some(STATE_TAX_RATES[code])
    ELSE Undefined

\* JavaScript a || b on an optional number: b when a is undefined or 0.
OrElse(a, b) == IF IsDefined(a) /\ ValueOf(a) # 0 THEN ValueOf(a) ELSE b

\* The limit of the last bracket; above every income of the model.
Infinity == 2000000000

\* TAX_BRACKETS_2026: limit in dollars, rate in 1/1000.
TAX_BRACKETS_2026 ==
    [single |->
        << [limit |-> 11600,  rate |-> 100],
           [limit |-> 47150,  rate |-> 150],
           [limit |-> 114650, rate |-> 250],
           [limit |-> 239200, rate |-> 280],
           [limit |-> 519900, rate |-> 330],
           [limit |-> 522000, rate |-> 350],
           [limit |-> Infinity, rate |-> 396] >>,
     married_joint |->
        << [limit |-> 23200,  rate |-> 100],
           [limit |-> 94300,  rate |-> 150],
           [limit |-> 190200, rate |-> 250],
           [limit |-> 289900, rate |-> 280],
           [limit |-> 519900, rate |-> 330],
           [limit |-> 589150, rate |-> 350],
           [limit |-> Infinity, rate |-> 396] >>]

----------------------------------------------------------------------------
(* getEffectiveRates *)

\* The state rate with the override tested for truthiness
\* (client.customStateTaxRate ? ... : ...).
StateRateOfTruthy(c) ==
    IF IsDefined(c.customStateTaxRate) /\ ValueOf(c.customStateTaxRate) # 0
    THEN (ValueOf(c.customStateTaxRate) * RateScale) \div 100
    ELSE OrElse(StateTableLookup(c.state), STATE_TAX_RATES["Other"])

StateRateOf(c) ==
    IF IsDefined(c.customStateTaxRate)
    THEN (ValueOf(c.customStateTaxRate) * RateScale) \div 100
    ELSE OrElse(StateTableLookup(c.state), STATE_TAX_RATES["Other"])

\* The LTCG rate with the threshold test taken as >= 33.
FedLtcgRateOfInclusive(c) ==
    IF IsDefined(c.customLtcgTaxRate)
    THEN (ValueOf(c.customLtcgTaxRate) * RateScale) \div 100
    ELSE (IF c.taxBracket >= 33 THEN 2000 ELSE 1500)

FedLtcgRateOf(c) ==
    IF IsDefined(c.customLtcgTaxRate)
    THEN (ValueOf(c.customLtcgTaxRate) * RateScale) \div 100
    ELSE (IF c.taxBracket > 33 THEN 2000 ELSE 1500)

getEffectiveRates(c) ==
    [stateRate |-> StateRateOf(c), fedLtcgRate |-> FedLtcgRateOf(c)]

----------------------------------------------------------------------------
(* calculateProgressiveTax, in 1/1000 dollar *)

\* The loop with the last bracket's tax assigned (tax = ...) instead of
\* added (tax += ...).
RECURSIVE TaxLoopAssign(_, _, _, _, _)
TaxLoopAssign(brackets, i, income, acc, previousLimit) ==
    IF i > Len(brackets) THEN acc
    ELSE IF income > brackets[i].limit
         THEN TaxLoopAssign(brackets, i + 1, income,
                      acc + (brackets[i].limit - previousLimit) * brackets[i].rate,
                      brackets[i].limit)
         ELSE (income - previousLimit) * brackets[i].rate

\* The for loop from bracket i on, with the running tax and previousLimit.
RECURSIVE TaxLoop(_, _, _, _, _)
TaxLoop(brackets, i, income, acc, previousLimit) ==
    IF i > Len(brackets) THEN acc
    ELSE IF income > brackets[i].limit
         THEN TaxLoop(brackets, i + 1, income,
                      acc + (brackets[i].limit - previousLimit) * brackets[i].rate,
                      brackets[i].limit)
         ELSE acc + (income - previousLimit) * brackets[i].rate

calculateProgressiveTax(income, st) ==
    TaxLoop(TAX_BRACKETS_2026[st], 1, income, 0, 0)

----------------------------------------------------------------------------
(* calculateEvent *)

\* amount x rate, for an amount that is a whole multiple of RateScale
\* (every value formed from a tranche is).
MulRate(amount, rate) == (amount \div RateScale) * rate

\* a / b in JavaScript numbers, for the quotients calculateEvent forms:
\* 0 / 0 is NaN.
Divide(a, b) == IF b = 0 THEN NaN ELSE a \div b

\* calculateEvent with every vested share kept when selling to cover
\* (netShares = shares).
calculateEventHoldAll(date, shares, g, fedRate, stateRate, electedRate, sellAll, t) ==
    LET price == g.currentPrice
        isISO == g.type = "ISO"
        strike == OrElse(g.strikePrice, 0)
        spread == Max(0, price - strike)
        grossValue == IF isISO THEN spread * shares ELSE shares * price
        withholdingAmount == IF isISO THEN 0 ELSE MulRate(grossValue, electedRate)
        fedLiability == IF isISO THEN 0 ELSE MulRate(grossValue, fedRate)
        stateLiability == IF isISO THEN 0 ELSE MulRate(grossValue, stateRate)
        niitLiability == 0
        totalLiability == fedLiability + stateLiability
        taxGap == IF isISO THEN 0 ELSE Max(0, totalLiability - withholdingAmount)
        sharesSoldForTax == Divide(withholdingAmount, price)
        sharesSoldToCover ==
            IF isISO THEN 0 ELSE IF sellAll THEN shares ELSE sharesSoldForTax
        netShares ==
            IF isISO THEN shares
            ELSE IF sellAll THEN 0
            ELSE IF IsNaN(sharesSoldForTax) THEN NaN
            ELSE shares
        netValue ==
            IF isISO THEN shares * price
            ELSE IF sellAll THEN grossValue - withholdingAmount
            ELSE IF IsNaN(netShares) THEN NaN
            ELSE netShares * price
    IN  [grantType |-> g.type,
         date |-> ToISODate(date),
         shares |-> shares,
         grossValue |-> grossValue,
         withholdingAmount |-> withholdingAmount,
         electedWithholdingRate |-> (electedRate * 100) \div RateScale,
         netShares |-> netShares,
         netValue |-> netValue,
         sharesSoldToCover |-> sharesSoldToCover,
         taxGap |-> taxGap,
         amtExposure |-> 0,
         taxBreakdown |-> [fed |-> fedLiability,
                           state |-> stateLiability,
                           niit |-> niitLiability,
                           totalLiability |-> fedLiability + stateLiability + niitLiability],
         isPast |-> date < t]

\* calculateEvent with the ISO spread left unclamped (price - strike).
calculateEventSignedSpread(date, shares, g, fedRate, stateRate, electedRate, sellAll, t) ==
    LET price == g.currentPrice
        isISO == g.type = "ISO"
        strike == OrElse(g.strikePrice, 0)
        spread == price - strike
        grossValue == IF isISO THEN spread * shares ELSE shares * price
        withholdingAmount == IF isISO THEN 0 ELSE MulRate(grossValue, electedRate)
        fedLiability == IF isISO THEN 0 ELSE MulRate(grossValue, fedRate)
        stateLiability == IF isISO THEN 0 ELSE MulRate(grossValue, stateRate)
        niitLiability == 0
        totalLiability == fedLiability + stateLiability
        taxGap == IF isISO THEN 0 ELSE Max(0, totalLiability - withholdingAmount)
        sharesSoldForTax == Divide(withholdingAmount, price)
        sharesSoldToCover ==
            IF isISO THEN 0 ELSE IF sellAll THEN shares ELSE sharesSoldForTax
        netShares ==
            IF isISO THEN shares
            ELSE IF sellAll THEN 0
            ELSE IF IsNaN(sharesSoldForTax) THEN NaN
            ELSE Max(0, shares - sharesSoldForTax)
        netValue ==
            IF isISO THEN shares * price
            ELSE IF sellAll THEN grossValue - withholdingAmount
            ELSE IF IsNaN(netShares) THEN NaN
            ELSE netShares * price
    IN  [grantType |-> g.type,
         date |-> ToISODate(date),
         shares |-> shares,
         grossValue |-> grossValue,
         withholdingAmount |-> withholdingAmount,
         electedWithholdingRate |-> (electedRate * 100) \div RateScale,
         netShares |-> netShares,
         netValue |-> netValue,
         sharesSoldToCover |-> sharesSoldToCover,
         taxGap |-> taxGap,
         amtExposure |-> 0,
         taxBreakdown |-> [fed |-> fedLiability,
                           state |-> stateLiability,
                           niit |-> niitLiability,
                           totalLiability |-> fedLiability + stateLiability + niitLiability],
         isPast |-> date < t]

calculateEvent(date, shares, g, fedRate, stateRate, electedRate, sellAll, t) ==
    LET price == g.currentPrice
        isISO == g.type = "ISO"
        strike == OrElse(g.strikePrice, 0)
        spread == Max(0, price - strike)
        grossValue == IF isISO THEN spread * shares ELSE shares * price
        withholdingAmount == IF isISO THEN 0 ELSE MulRate(grossValue, electedRate)
        fedLiability == IF isISO THEN 0 ELSE MulRate(grossValue, fedRate)
        stateLiability == IF isISO THEN 0 ELSE MulRate(grossValue, stateRate)
        niitLiability == 0
        totalLiability == fedLiability + stateLiability
        taxGap == IF isISO THEN 0 ELSE Max(0, totalLiability - withholdingAmount)
        sharesSoldForTax == Divide(withholdingAmount, price)
        sharesSoldToCover ==
            IF isISO THEN 0 ELSE IF sellAll THEN shares ELSE sharesSoldForTax
        netShares ==
            IF isISO THEN shares
            ELSE IF sellAll THEN 0
            ELSE IF IsNaN(sharesSoldForTax) THEN NaN
            ELSE Max(0, shares - sharesSoldForTax)
        netValue ==
            IF isISO THEN shares * price
            ELSE IF sellAll THEN grossValue - withholdingAmount
            ELSE IF IsNaN(netShares) THEN NaN
            ELSE netShares * price
    IN  [grantType |-> g.type,
         date |-> ToISODate(date),
         shares |-> shares,
         grossValue |-> grossValue,
         withholdingAmount |-> withholdingAmount,
         electedWithholdingRate |-> (electedRate * 100) \div RateScale,
         netShares |-> netShares,
         netValue |-> netValue,
         sharesSoldToCover |-> sharesSoldToCover,
         taxGap |-> taxGap,
         amtExposure |-> 0,
         taxBreakdown |-> [fed |-> fedLiability,
                           state |-> stateLiability,
                           niit |-> niitLiability,
                           totalLiability |-> fedLiability + stateLiability + niitLiability],
         isPast |-> date < t]

----------------------------------------------------------------------------
(* generateVestingSchedule *)

\* events.sort((a, b) => new Date(a.date).getTime() - new Date(b.date).getTime()):
\* a stable sort; Insert puts e after every element that does not compare
\* greater than it.
\* Insert with the comparator's operands exchanged (b - a).
RECURSIVE InsertDescending(_, _)
InsertDescending(sorted, e) ==
    IF sorted = << >> THEN << e >>
    ELSE IF ParseDate(e.date) - ParseDate(sorted[Len(sorted)].date) <= 0
         THEN Append(sorted, e)
         ELSE Append(InsertDescending(SubSeq(sorted, 1, Len(sorted) - 1), e),
                     sorted[Len(sorted)])

RECURSIVE Insert(_, _)
Insert(sorted, e) ==
    IF sorted = << >> THEN << e >>
    ELSE IF ParseDate(sorted[Len(sorted)].date) - ParseDate(e.date) <= 0
         THEN Append(sorted, e)
         ELSE Append(Insert(SubSeq(sorted, 1, Len(sorted) - 1), e),
                     sorted[Len(sorted)])

RECURSIVE SortLoop(_, _, _)
SortLoop(events, i, acc) ==
    IF i > Len(events) THEN acc
    ELSE SortLoop(events, i + 1, Insert(acc, events[i]))

SortByDate(events) == SortLoop(events, 1, << >>)

\* The cliff branch with the later tranches taken as sixteenths of the
\* remaining 75%.
CliffEventsSixteenths(g, fedRate, stateRate, electedRate, sellAll, t) ==
    LET grantDate == ParseDate(g.grantDate)
        cliffDate == addMonths(grantDate, 12)
        cliffShares == g.totalShares \div 4
        shares == ((g.totalShares * 3) \div 4) \div 16
    IN  << calculateEvent(cliffDate, cliffShares, g, fedRate, stateRate,
                          electedRate, sellAll, t) >>
        \o [i \in 1..12 |->
               calculateEvent(addMonths(cliffDate, i * 3), shares, g, fedRate,
                              stateRate, electedRate, sellAll, t)]

\* The events pushed by the cliff branch, in push order.
CliffEvents(g, fedRate, stateRate, electedRate, sellAll, t) ==
    LET grantDate == ParseDate(g.grantDate)
        cliffDate == addMonths(grantDate, 12)
        cliffShares == g.totalShares \div 4
        shares == ((g.totalShares * 3) \div 4) \div 12
    IN  << calculateEvent(cliffDate, cliffShares, g, fedRate, stateRate,
                          electedRate, sellAll, t) >>
        \o [i \in 1..12 |->
               calculateEvent(addMonths(cliffDate, i * 3), shares, g, fedRate,
                              stateRate, electedRate, sellAll, t)]

\* The events pushed by the quarterly branch, in push order.
QuarterlyEvents(g, fedRate, stateRate, electedRate, sellAll, t) ==
    LET grantDate == ParseDate(g.grantDate)
        sharesPerTranche == g.totalShares \div 16
    IN  [i \in 1..16 |->
            calculateEvent(addMonths(grantDate, i * 3), sharesPerTranche, g,
                           fedRate, stateRate, electedRate, sellAll, t)]

\* The elected rate with the default taken for every falsy rate
\* (grant.withholdingRate || 22).
ElectedRateOfTruthy(g) ==
    (OrElse(g.withholdingRate, 22) * RateScale) \div 100

\* electedRate: the grant's withholdingRate, 22 when it is undefined, / 100.
ElectedRateOf(g) ==
    ((IF IsDefined(g.withholdingRate) THEN ValueOf(g.withholdingRate)
      ELSE 22) * RateScale) \div 100

generateVestingSchedule(g, c, sellAll, t) ==
    LET clientTaxRate == (c.taxBracket * RateScale) \div 100
        stateRate == getEffectiveRates(c).stateRate
        electedRate == ElectedRateOf(g)
        events ==
            IF g.vestingSchedule = "standard_4y_1y_cliff"
            THEN CliffEvents(g, clientTaxRate, stateRate, electedRate, sellAll, t)
            ELSE QuarterlyEvents(g, clientTaxRate, stateRate, electedRate, sellAll, t)
    IN  SortByDate(events)

----------------------------------------------------------------------------
(* getGrantStatus *)

RECURSIVE SumShares(_)
SumShares(seq) ==
    IF seq = << >> THEN 0 ELSE seq[1].shares + SumShares(Tail(seq))

\* The client getGrantStatus generates the schedule for.
DummyClient ==
    [state |-> "CA", filingStatus |-> "single", taxBracket |-> 37,
     estimatedIncome |-> Undefined, customStateTaxRate |-> Undefined,
     customLtcgTaxRate |-> Undefined, grants |-> << >>]

\* getGrantStatus without the clamp at 0.
getGrantStatusUnclamped(g, planned, t) ==
    LET sched == generateVestingSchedule(g, DummyClient, FALSE, t)
        vestedEvents == SelectSeq(sched, LAMBDA e : ParseDate(e.date) <= t)
        unvestedEvents == SelectSeq(sched, LAMBDA e : ParseDate(e.date) > t)
        exercisedShares ==
            SumShares(SelectSeq(planned, LAMBDA p : p.grantId = g.id))
    IN  [total |-> g.totalShares,
         vestedTotal |-> SumShares(vestedEvents),
         unvested |-> SumShares(unvestedEvents),
         exercised |-> exercisedShares,
         available |-> SumShares(vestedEvents) - exercisedShares]

\* getGrantStatus with the vested filter taken as new Date(e.date) < now.
getGrantStatusStrictlyVested(g, planned, t) ==
    LET sched == generateVestingSchedule(g, DummyClient, FALSE, t)
        vestedEvents == SelectSeq(sched, LAMBDA e : ParseDate(e.date) < t)
        unvestedEvents == SelectSeq(sched, LAMBDA e : ParseDate(e.date) > t)
        totalVestedShares == SumShares(vestedEvents)
        totalUnvestedShares == SumShares(unvestedEvents)
        exercisedShares ==
            SumShares(SelectSeq(planned, LAMBDA p : p.grantId = g.id))
    IN  [total |-> g.totalShares,
         vestedTotal |-> totalVestedShares,
         unvested |-> totalUnvestedShares,
         exercised |-> exercisedShares,
         available |-> Max(0, totalVestedShares - exercisedShares)]

\* The statements of getGrantStatus after the schedule is generated.
GrantStatusFrom(g, planned, sched, t) ==
    LET vestedEvents == SelectSeq(sched, LAMBDA e : ParseDate(e.date) <= t)
        unvestedEvents == SelectSeq(sched, LAMBDA e : ParseDate(e.date) > t)
        totalVestedShares == SumShares(vestedEvents)
        totalUnvestedShares == SumShares(unvestedEvents)
        exercisedShares ==
            SumShares(SelectSeq(planned, LAMBDA p : p.grantId = g.id))
    IN  [total |-> g.totalShares,
         vestedTotal |-> totalVestedShares,
         unvested |-> totalUnvestedShares,
         exercised |-> exercisedShares,
         available |-> Max(0, totalVestedShares - exercisedShares)]

getGrantStatus(g, planned, t) ==
    GrantStatusFrom(g, planned,
                    generateVestingSchedule(g, DummyClient, FALSE, t), t)

----------------------------------------------------------------------------
(* Inputs *)

MaxGrantYear == 2024
MaxTotalShares == 100
MaxPlanned == 2
MaxIncomeSteps == 40

FilingStatuses == {"single", "married_joint"}

IsValidDate(s) == s.d <= DaysInMonth(s.y, s.m)

\* Grant dates as the date input delivers them: mid-month and month-end days.
GrantDates ==
    {s \in [y : 2023..MaxGrantYear, m : 1..12, d : {1, 15, 28, 29, 30, 31}] :
        IsValidDate(s)}

\* Whole share counts, in 1/ShareUnit share.
TotalSharesSet == {n * ShareUnit : n \in {1, 16, MaxTotalShares}}

VestingSchedules == {"standard_4y_1y_cliff", "standard_4y_quarterly"}

\* Grants as GrantForm builds them: an RSU carries no strike price, an ISO
\* no withholding rate.
NewGrant(type, date, total, sched) ==
    [id |-> "g1", type |-> type, currentPrice |-> 50,
     strikePrice |-> IF type = "ISO" THEN Some(10) ELSE Undefined,
     grantDate |-> date, totalShares |-> total, vestingSchedule |-> sched,
     withholdingRate |-> Undefined]

Grants ==
    {NewGrant(type, date, total, sched) :
        type \in {"RSU", "ISO"}, date \in GrantDates,
        total \in TotalSharesSet, sched \in VestingSchedules}

\* Evaluation instants: midnight of 2025-03-01 (a vesting date of some
\* grants) and an instant inside 2026-06-15.
Instants ==
    {ParseDate([y |-> 2025, m |-> 3, d |-> 1]),
     ParseDate([y |-> 2026, m |-> 6, d |-> 15]) + 1}

NoStatus ==
    [total |-> 0, vestedTotal |-> 0, unvested |-> 0, exercised |-> 0,
     available |-> 0]

NoRates == [stateRate |-> 0, fedLtcgRate |-> 0]

\* ISOPlanner's own state as useState creates it.
PlannerMounted ==
    /\ sharesToExercise = 0
    /\ strategyMode = "buy_hold"

\* calculateISOScenarios and calculateAMTRoom not called.
NoScenarioNoRoom ==
    /\ isoArgs = [called |-> FALSE]
    /\ scenario = [called |-> FALSE]
    /\ amt = [called |-> FALSE]
    /\ amtRoom = [called |-> FALSE]

----------------------------------------------------------------------------
(* Specification of generateVestingSchedule *)

Init ==
    /\ pc = "idle"
    /\ grant \in Grants
    /\ client = DummyClient
    /\ simulateSellAll \in BOOLEAN
    /\ now \in Instants
    /\ plannedExercises = << >>
    /\ schedule = << >>
    /\ status = NoStatus
    /\ rates = NoRates
    /\ taxableIncome = 0
    /\ filingStatus = "single"
    /\ tax = 0
    /\ PlannerMounted
    /\ NoScenarioNoRoom

GenerateVestingSchedule ==
    /\ pc = "idle"
    /\ schedule' = generateVestingSchedule(grant, client, simulateSellAll, now)
    /\ pc' = "generateVestingSchedule"
    /\ UNCHANGED <<sharesToExercise, strategyMode,
                   isoArgs, scenario, amt, amtRoom,
                   grant, client, simulateSellAll, now, plannedExercises,
                   status, rates, taxableIncome, filingStatus, tax>>

Next == GenerateVestingSchedule

Spec == Init /\ [][Next]_vars

----------------------------------------------------------------------------
(* Properties of generateVestingSchedule *)

Returned == pc = "generateVestingSchedule"

\* Calendar addition of months: the same day of the month n months later,
\* or the last day of that month when it is shorter.
CalendarAddMonths(s, n) ==
    LET mon == s.m - 1 + n
        yr  == s.y + mon \div 12
        mo  == (mon % 12) + 1
    IN  [y |-> yr, m |-> mo, d |-> Min(s.d, DaysInMonth(yr, mo))]

\* C1: the shares of the returned events add up to grant.totalShares, for
\* both variants and both grant types.
C1_SharesSumToTotal ==
    Returned => SumShares(schedule) = grant.totalShares

C1_Witness ==
    /\ Returned
    /\ grant.vestingSchedule = "standard_4y_1y_cliff"
    /\ grant.type = "ISO"
    /\ grant.totalShares = 16 * ShareUnit
    /\ Len(schedule) = 13
    /\ SumShares(schedule) = 16 * ShareUnit

\* C2: a cliff grant yields exactly 13 events; the first is dated grant date
\* + 12 months with 25% of totalShares, the other twelve carry 6.25% each
\* and are dated cliff date + 3, + 6, ..., + 36 months, for every grant date.
C2_CliffSchedule ==
    (Returned /\ grant.vestingSchedule = "standard_4y_1y_cliff") =>
        /\ Len(schedule) = 13
        /\ schedule[1].date = CalendarAddMonths(grant.grantDate, 12)
        /\ schedule[1].shares * 4 = grant.totalShares
        /\ \A k \in 2..13 :
              /\ schedule[k].shares * 16 = grant.totalShares
              /\ schedule[k].date =
                    CalendarAddMonths(schedule[1].date, 3 * (k - 1))

\* C3: a quarterly grant yields exactly 16 events of 6.25% each, the first
\* dated grant date + 3 months and each later one 3 months after the
\* previous.
C3_QuarterlySchedule ==
    (Returned /\ grant.vestingSchedule = "standard_4y_quarterly") =>
        /\ Len(schedule) = 16
        /\ \A k \in 1..16 :
              /\ schedule[k].shares * 16 = grant.totalShares
              /\ schedule[k].date = CalendarAddMonths(grant.grantDate, 3 * k)

\* C4: the returned sequence is in ascending date order: no event is dated
\* after its successor.
C4_SortedByDate ==
    Returned =>
        \A k \in 1..(Len(schedule) - 1) :
            ParseDate(schedule[k].date) <= ParseDate(schedule[k + 1].date)

C4_Witness ==
    /\ Returned
    /\ grant.grantDate = [y |-> 2023, m |-> 11, d |-> 30]
    /\ Len(schedule) = 16
    /\ schedule[1].date = [y |-> 2024, m |-> 3, d |-> 1]
    /\ ParseDate(schedule[1].date) < ParseDate(schedule[16].date)

----------------------------------------------------------------------------
(* Specification of getGrantStatus *)

StatusGrants ==
    {g \in Grants : g.grantDate.m \in {2, 11} /\ g.grantDate.d \in {15, 29, 30}}

\* Planned exercises of this grant ("g1") and of another grant ("g2").
PlannedExerciseSet ==
    [grantId : {"g1", "g2"}, shares : {5 * ShareUnit, 20 * ShareUnit}]

PlannedSeqs ==
    UNION {[1..n -> PlannedExerciseSet] : n \in 0..MaxPlanned}

\* Before every vesting date, midnight of a cliff date, between vesting
\* dates, and after the last vesting date.
StatusInstants ==
    {ParseDate([y |-> 2023, m |-> 1, d |-> 1]),
     ParseDate([y |-> 2025, m |-> 3, d |-> 1]),
     ParseDate([y |-> 2026, m |-> 6, d |-> 15]) + 1,
     ParseDate([y |-> 2031, m |-> 1, d |-> 1])}

InitStatus ==
    /\ pc = "idle"
    /\ grant \in StatusGrants
    /\ client = DummyClient
    /\ simulateSellAll = FALSE
    /\ now \in StatusInstants
    /\ plannedExercises \in PlannedSeqs
    /\ schedule = << >>
    /\ status = NoStatus
    /\ rates = NoRates
    /\ taxableIncome = 0
    /\ filingStatus = "single"
    /\ tax = 0
    /\ PlannerMounted
    /\ NoScenarioNoRoom

GetGrantStatus ==
    /\ pc = "idle"
    /\ status' = getGrantStatus(grant, plannedExercises, now)
    /\ pc' = "getGrantStatus"
    /\ UNCHANGED <<sharesToExercise, strategyMode,
                   isoArgs, scenario, amt, amtRoom,
                   grant, client, simulateSellAll, now, plannedExercises,
                   schedule, rates, taxableIncome, filingStatus, tax>>

NextStatus == GetGrantStatus

SpecStatus == InitStatus /\ [][NextStatus]_vars

\* The shares of the first i planned exercises that name grant id.
RECURSIVE MatchingShares(_, _, _)
MatchingShares(planned, id, i) ==
    IF i = 0 THEN 0
    ELSE MatchingShares(planned, id, i - 1)
         + (IF planned[i].grantId = id THEN planned[i].shares ELSE 0)

\* C5: available = max(0, vestedTotal - exercised), exercised being the
\* shares of exactly the planned exercises of this grant; available is never
\* negative.
C5_AvailableClamped ==
    pc = "getGrantStatus" =>
        /\ status.exercised =
              MatchingShares(plannedExercises, grant.id, Len(plannedExercises))
        /\ status.available = Max(0, status.vestedTotal - status.exercised)
        /\ status.available >= 0

C5_Witness ==
    /\ pc = "getGrantStatus"
    /\ \E i \in 1..Len(plannedExercises) : plannedExercises[i].grantId # grant.id
    /\ status.vestedTotal > 0
    /\ status.exercised > status.vestedTotal
    /\ status.available = 0

----------------------------------------------------------------------------
(* Specification of calculateProgressiveTax *)

BracketLimits ==
    {TAX_BRACKETS_2026[st][i].limit : st \in FilingStatuses, i \in 1..6}

\* Negative, zero, around every bracket limit, and every 25000 dollars.
Incomes ==
    {-1000, -1, 0, 1}
    \cup {l + k : l \in BracketLimits, k \in {-1, 0, 1}}
    \cup {25000 * k : k \in 0..MaxIncomeSteps}

InitTax ==
    /\ pc = "idle"
    /\ grant = NewGrant("RSU", [y |-> 2023, m |-> 1, d |-> 1], ShareUnit,
                        "standard_4y_quarterly")
    /\ client = DummyClient
    /\ simulateSellAll = FALSE
    /\ now = 0
    /\ plannedExercises = << >>
    /\ schedule = << >>
    /\ status = NoStatus
    /\ rates = NoRates
    /\ taxableIncome = 0
    /\ filingStatus = "single"
    /\ tax = 0
    /\ PlannerMounted
    /\ NoScenarioNoRoom

CalculateProgressiveTax ==
    \E income \in Incomes, st \in FilingStatuses :
        /\ taxableIncome' = income
        /\ filingStatus' = st
        /\ tax' = calculateProgressiveTax(income, st)
        /\ pc' = "calculateProgressiveTax"
        /\ UNCHANGED <<sharesToExercise, strategyMode,
                       isoArgs, scenario, amt, amtRoom,
                   grant, client, simulateSellAll, now, plannedExercises,
                       schedule, status, rates>>

NextTax == CalculateProgressiveTax

SpecTax == InitTax /\ [][NextTax]_vars

\* C6: for one filing status, a call with a larger income (the smaller one
\* being >= 0) never returns a smaller tax than the call before it; and the
\* tax on an income of 0 is 0.
C6_MonotoneTax ==
    /\ [][(/\ pc = "calculateProgressiveTax"
            /\ filingStatus' = filingStatus
            /\ 0 <= taxableIncome
            /\ taxableIncome <= taxableIncome') => tax <= tax']_vars
    /\ []((pc = "calculateProgressiveTax" /\ taxableIncome = 0) => tax = 0)

C6_Witness ==
    /\ pc = "calculateProgressiveTax"
    /\ filingStatus = "single"
    /\ taxableIncome = 519901
    /\ tax > calculateProgressiveTax(519900, "single")

----------------------------------------------------------------------------
(* Specification of getEffectiveRates *)

TaxBracketSet == {10, 24, 32, 33, 34, 35, 37}

\* Custom rates in percent, as AddClientModal passes them.
CustomRates == {Undefined, Some(0), Some(5), Some(13)}

\* Every key of the table and a code that is not a key.
ClientStates == StateCodes \cup {"ZZ"}

RateClients ==
    [state : ClientStates, filingStatus : FilingStatuses,
     taxBracket : TaxBracketSet, estimatedIncome : {Undefined},
     customStateTaxRate : CustomRates, customLtcgTaxRate : CustomRates,
     grants : {<< >>}]

InitRates ==
    /\ pc = "idle"
    /\ grant = NewGrant("RSU", [y |-> 2023, m |-> 1, d |-> 1], ShareUnit,
                        "standard_4y_quarterly")
    /\ client \in RateClients
    /\ simulateSellAll = FALSE
    /\ now = 0
    /\ plannedExercises = << >>
    /\ schedule = << >>
    /\ status = NoStatus
    /\ rates = NoRates
    /\ taxableIncome = 0
    /\ filingStatus = "single"
    /\ tax = 0
    /\ PlannerMounted
    /\ NoScenarioNoRoom

GetEffectiveRates ==
    /\ pc = "idle"
    /\ rates' = getEffectiveRates(client)
    /\ pc' = "getEffectiveRates"
    /\ UNCHANGED <<sharesToExercise, strategyMode,
                   isoArgs, scenario, amt, amtRoom,
                   grant, client, simulateSellAll, now, plannedExercises,
                   schedule, status, taxableIncome, filingStatus, tax>>

NextRates == GetEffectiveRates

SpecRates == InitRates /\ [][NextRates]_vars

\* C8: a present override wins: with customStateTaxRate present (0
\* included) stateRate is customStateTaxRate / 100 whatever the state code,
\* and with customLtcgTaxRate present (0 included) fedLtcgRate is
\* customLtcgTaxRate / 100 whatever the bracket.
C8_OverridePrecedence ==
    pc = "getEffectiveRates" =>
        /\ IsDefined(client.customStateTaxRate) =>
              rates.stateRate * 100 = ValueOf(client.customStateTaxRate) * RateScale
        /\ IsDefined(client.customLtcgTaxRate) =>
              rates.fedLtcgRate * 100 = ValueOf(client.customLtcgTaxRate) * RateScale

C8_Witness ==
    /\ pc = "getEffectiveRates"
    /\ client.state = "CA"
    /\ client.taxBracket = 37
    /\ client.customStateTaxRate = Some(0)
    /\ client.customLtcgTaxRate = Some(0)
    /\ rates.stateRate = 0
    /\ rates.fedLtcgRate = 0

\* C9: without a state override, stateRate is the table's rate for every
\* state code of the table and the 'Other' rate for every other code.
C9_StateTableLookup ==
    (pc = "getEffectiveRates" /\ ~IsDefined(client.customStateTaxRate)) =>
        rates.stateRate =
            IF client.state \in StateCodes THEN STATE_TAX_RATES[client.state]
            ELSE STATE_TAX_RATES["Other"]

\* C10: without an LTCG override, fedLtcgRate is 0.20 for a bracket above
\* 33 and 0.15 for a bracket of 33 or less.
C10_LtcgThreshold ==
    (pc = "getEffectiveRates" /\ ~IsDefined(client.customLtcgTaxRate)) =>
        /\ client.taxBracket >= 34 => rates.fedLtcgRate * 100 = 20 * RateScale
        /\ client.taxBracket <= 33 => rates.fedLtcgRate * 100 = 15 * RateScale

C10_Witness ==
    /\ pc = "getEffectiveRates"
    /\ ~IsDefined(client.customLtcgTaxRate)
    /\ client.taxBracket = 33
    /\ rates.fedLtcgRate * 100 = 15 * RateScale

----------------------------------------------------------------------------
(* Specification of generateVestingSchedule over prices, strikes and rates *)

\* Grant dates for the event values: a mid-month day and a month-end day.
EventGrantDates ==
    {[y |-> 2023, m |-> 1, d |-> 15], [y |-> 2024, m |-> 2, d |-> 29]}

\* Current prices: GrantForm accepts every price from 0 on.
EventPrices == {0, 50}

\* Elected withholding percentages (GrantForm: 0..100), and none at all.
WithholdingRates == {Undefined, Some(0), Some(22), Some(37), Some(100)}

\* Strike prices: none, zero, below and above the current price.
StrikePrices == {Undefined, Some(0), Some(10), Some(60)}

EventGrants ==
    {[id |-> "g1", type |-> "RSU", currentPrice |-> price,
      strikePrice |-> Undefined, grantDate |-> date, totalShares |-> total,
      vestingSchedule |-> sched, withholdingRate |-> wh] :
        price \in EventPrices, date \in EventGrantDates,
        total \in TotalSharesSet, sched \in VestingSchedules,
        wh \in WithholdingRates}
    \cup
    {[id |-> "g1", type |-> "ISO", currentPrice |-> price,
      strikePrice |-> strike, grantDate |-> date, totalShares |-> total,
      vestingSchedule |-> sched, withholdingRate |-> Undefined] :
        price \in EventPrices, date \in EventGrantDates,
        total \in TotalSharesSet, sched \in VestingSchedules,
        strike \in StrikePrices}

EventClients ==
    [state : {"CA", "TX", "NJ"}, filingStatus : {"single"},
     taxBracket : {10, 37}, estimatedIncome : {Undefined},
     customStateTaxRate : {Undefined, Some(0)},
     customLtcgTaxRate : {Undefined}, grants : {<< >>}]

InitEvent ==
    /\ pc = "idle"
    /\ grant \in EventGrants
    /\ client \in EventClients
    /\ simulateSellAll \in BOOLEAN
    /\ now \in Instants
    /\ plannedExercises = << >>
    /\ schedule = << >>
    /\ status = NoStatus
    /\ rates = NoRates
    /\ taxableIncome = 0
    /\ filingStatus = "single"
    /\ tax = 0
    /\ PlannerMounted
    /\ NoScenarioNoRoom

SpecEvent == InitEvent /\ [][Next]_vars

\* The events of the returned schedule.
Events == {schedule[k] : k \in 1..Len(schedule)}

ReturnedRSU == Returned /\ grant.type = "RSU"
ReturnedISO == Returned /\ grant.type = "ISO"

\* The elected withholding percentage of the grant: the grant's own
\* rate when present, 22 otherwise.
ElectedPercent ==
    IF IsDefined(grant.withholdingRate) THEN ValueOf(grant.withholdingRate)
    ELSE 22

\* C11: every RSU event has grossValue = shares x price, withholdingAmount
\* = grossValue x elected rate (the grant's rate when present, 0 included,
\* 22% only when absent), total liability = grossValue x (bracket / 100 +
\* stateRate) and taxGap = max(0, liability - withholdingAmount) >= 0.
C11_RSUWithholding ==
    ReturnedRSU =>
        \A e \in Events :
            /\ e.grossValue = e.shares * grant.currentPrice
            /\ e.withholdingAmount = (e.grossValue \div 100) * ElectedPercent
            /\ e.taxBreakdown.totalLiability =
                  (e.grossValue \div RateScale)
                  * (client.taxBracket * (RateScale \div 100)
                     + getEffectiveRates(client).stateRate)
            /\ e.taxGap =
                  Max(0, e.taxBreakdown.totalLiability - e.withholdingAmount)
            /\ e.taxGap >= 0

C11_Witness ==
    /\ ReturnedRSU
    /\ grant.withholdingRate = Some(0)
    /\ grant.currentPrice = 50
    /\ client.taxBracket = 37
    /\ client.state = "CA"
    /\ ~IsDefined(client.customStateTaxRate)
    /\ \E e \in Events : e.withholdingAmount = 0 /\ e.taxGap > 0

\* C12: for every RSU event, with simulateSellAll netShares = 0 and
\* netValue = grossValue - withholdingAmount; without it sharesSoldToCover =
\* withholdingAmount / price and netShares = shares - sharesSoldToCover
\* (both NaN when the price is 0, the quotient being 0 / 0).
C12_SellAllAndSellToCover ==
    ReturnedRSU =>
        \A e \in Events :
            IF simulateSellAll
            THEN /\ e.netShares = 0
                 /\ e.netValue = e.grossValue - e.withholdingAmount
            ELSE IF grant.currentPrice # 0
            THEN /\ e.sharesSoldToCover * grant.currentPrice = e.withholdingAmount
                 /\ e.netShares = e.shares - e.sharesSoldToCover
            ELSE IsNaN(e.sharesSoldToCover) /\ IsNaN(e.netShares)

C12_Witness ==
    /\ ReturnedRSU
    /\ ~simulateSellAll
    /\ grant.currentPrice = 50
    /\ grant.withholdingRate = Some(37)
    /\ \E e \in Events :
          /\ e.sharesSoldToCover > 0
          /\ e.netShares > 0
          /\ e.netShares < e.shares

\* C13: with a current price of 0 and without simulateSellAll, no RSU event
\* carries NaN in sharesSoldToCover, netShares or netValue.
C13_ZeroPriceGuarded ==
    (ReturnedRSU /\ grant.currentPrice = 0 /\ ~simulateSellAll) =>
        \A e \in Events :
            /\ ~IsNaN(e.sharesSoldToCover)
            /\ ~IsNaN(e.netShares)
            /\ ~IsNaN(e.netValue)

\* What every ISO event has besides its gross value: nothing withheld, no
\* tax gap, no AMT exposure, no tax amounts, all shares kept.
ISOEventUntaxed(e) ==
    /\ e.withholdingAmount = 0
    /\ e.taxGap = 0
    /\ e.amtExposure = 0
    /\ e.taxBreakdown.fed = 0
    /\ e.taxBreakdown.state = 0
    /\ e.taxBreakdown.niit = 0
    /\ e.taxBreakdown.totalLiability = 0
    /\ e.netShares = e.shares

\* C14 as stated: every ISO event is untaxed and has grossValue =
\* (FMV - strike) x shares, for every strike and FMV, strike above FMV
\* included.
C14_ISOEventSignedSpread ==
    (ReturnedISO /\ IsDefined(grant.strikePrice)) =>
        \A e \in Events :
            /\ ISOEventUntaxed(e)
            /\ e.grossValue =
                  (grant.currentPrice - ValueOf(grant.strikePrice)) * e.shares

\* C14 as amended: every ISO event is untaxed and has grossValue =
\* max(0, FMV - strike) x shares, a strike that is absent counting as 0.
C14_ISOEventClampedSpread ==
    ReturnedISO =>
        \A e \in Events :
            /\ ISOEventUntaxed(e)
            /\ e.grossValue =
                  Max(0, grant.currentPrice
                         - (IF IsDefined(grant.strikePrice)
                            THEN ValueOf(grant.strikePrice) ELSE 0))
                  * e.shares

C14_Witness ==
    /\ ReturnedISO
    /\ grant.strikePrice = Some(60)
    /\ grant.currentPrice = 50
    /\ \E e \in Events : e.grossValue = 0 /\ e.netShares = e.shares /\ e.shares > 0

\* C20: an ISO grant without a strike price is rejected: no vesting events
\* are produced for it.
C20_MissingStrikeRejected ==
    (ReturnedISO /\ ~IsDefined(grant.strikePrice)) => schedule = << >>

----------------------------------------------------------------------------
(* calculateISOScenarios: share counts are whole shares, amounts are       *)
(* dollars, tax amounts and netProfit are dollars x RateScale.             *)

\* NIIT_RATE, in 1/RateScale.
NIIT_RATE == 380

\* The qualified branch with the NIIT left out.
ISOQualifiedNoNiit(shares, strikePrice, fmvAtExercise, salePrice, c) ==
    LET exerciseCost == shares * strikePrice
        saleProceeds == shares * salePrice
        bargainElement == Max(0, (fmvAtExercise - strikePrice) * shares)
        r == getEffectiveRates(c)
        capitalGain == Max(0, saleProceeds - exerciseCost)
    IN  [ordinaryIncome |-> 0,
         capitalGain |-> capitalGain,
         amtPreference |-> bargainElement,
         fedAmount |-> capitalGain * r.fedLtcgRate,
         niitAmount |-> 0,
         stateAmount |-> capitalGain * r.stateRate]

\* The isQualified branch: the whole gain is a long-term capital gain.
ISOQualified(shares, strikePrice, fmvAtExercise, salePrice, c) ==
    LET exerciseCost == shares * strikePrice
        saleProceeds == shares * salePrice
        bargainElement == Max(0, (fmvAtExercise - strikePrice) * shares)
        r == getEffectiveRates(c)
        capitalGain == Max(0, saleProceeds - exerciseCost)
    IN  [ordinaryIncome |-> 0,
         capitalGain |-> capitalGain,
         amtPreference |-> bargainElement,
         fedAmount |-> capitalGain * r.fedLtcgRate,
         niitAmount |-> capitalGain * NIIT_RATE,
         stateAmount |-> capitalGain * r.stateRate]

\* The else branch with the whole bargain element taken as ordinary income.
ISODisqualifiedNoMin(shares, strikePrice, fmvAtExercise, salePrice, c) ==
    LET exerciseCost == shares * strikePrice
        saleProceeds == shares * salePrice
        bargainElement == Max(0, (fmvAtExercise - strikePrice) * shares)
        r == getEffectiveRates(c)
        ordinaryIncome == bargainElement
        capitalGain == Max(0, saleProceeds - shares * fmvAtExercise)
        ordinaryFed == ordinaryIncome * ((c.taxBracket * RateScale) \div 100)
        ordinaryState == ordinaryIncome * r.stateRate
        capFed == capitalGain * r.fedLtcgRate
        capNiit == capitalGain * NIIT_RATE
        capState == capitalGain * r.stateRate
    IN  [ordinaryIncome |-> ordinaryIncome,
         capitalGain |-> capitalGain,
         amtPreference |-> 0,
         fedAmount |-> ordinaryFed + capFed,
         niitAmount |-> capNiit,
         stateAmount |-> ordinaryState + capState]

\* The else branch: a disqualifying disposition.
ISODisqualified(shares, strikePrice, fmvAtExercise, salePrice, c) ==
    LET exerciseCost == shares * strikePrice
        saleProceeds == shares * salePrice
        bargainElement == Max(0, (fmvAtExercise - strikePrice) * shares)
        r == getEffectiveRates(c)
        actualGain == saleProceeds - exerciseCost
        ordinaryIncome == Min(bargainElement, actualGain)
        capitalGain == Max(0, saleProceeds - shares * fmvAtExercise)
        ordinaryFed == ordinaryIncome * ((c.taxBracket * RateScale) \div 100)
        ordinaryState == ordinaryIncome * r.stateRate
        capFed == capitalGain * r.fedLtcgRate
        capNiit == capitalGain * NIIT_RATE
        capState == capitalGain * r.stateRate
    IN  [ordinaryIncome |-> ordinaryIncome,
         capitalGain |-> capitalGain,
         amtPreference |-> 0,
         fedAmount |-> ordinaryFed + capFed,
         niitAmount |-> capNiit,
         stateAmount |-> ordinaryState + capState]

calculateISOScenarios(shares, strikePrice, fmvAtExercise, salePrice, c, isQualified) ==
    LET exerciseCost == shares * strikePrice
        saleProceeds == shares * salePrice
        r == getEffectiveRates(c)
        b == IF isQualified
             THEN ISOQualified(shares, strikePrice, fmvAtExercise, salePrice, c)
             ELSE ISODisqualified(shares, strikePrice, fmvAtExercise, salePrice, c)
        totalTax == b.fedAmount + b.niitAmount + b.stateAmount
    IN  [called |-> TRUE,
         name |-> IF isQualified THEN "Qualified Disposition (Hold 1yr+)"
                  ELSE "Disqualified Disposition (Sell Early)",
         exerciseDate |-> "TBD",
         saleDate |-> "TBD",
         shares |-> shares,
         fmvAtExercise |-> fmvAtExercise,
         salePrice |-> salePrice,
         ordinaryIncome |-> b.ordinaryIncome,
         capitalGain |-> b.capitalGain,
         amtPreference |-> b.amtPreference,
         taxes |-> [fedRate |-> IF isQualified THEN r.fedLtcgRate
                                ELSE (c.taxBracket * RateScale) \div 100,
                    fedAmount |-> b.fedAmount,
                    niitRate |-> NIIT_RATE,
                    niitAmount |-> b.niitAmount,
                    stateRate |-> r.stateRate,
                    stateAmount |-> b.stateAmount,
                    totalTax |-> totalTax],
         netProfit |-> (saleProceeds - exerciseCost) * RateScale - totalTax]

----------------------------------------------------------------------------
(* Specification of calculateISOScenarios *)

\* Shares to exercise, strike, FMV at exercise and sale price: a sale below
\* the strike, between strike and FMV, at FMV and above it; a strike above
\* the FMV.
ISOArgs ==
    [called : {TRUE}, shares : {1, 100, 1000}, strikePrice : {0, 10, 60},
     fmvAtExercise : {5, 50}, salePrice : {0, 5, 50, 100},
     isQualified : BOOLEAN]

ISOClients ==
    [state : {"CA", "TX"}, filingStatus : {"married_joint"},
     taxBracket : {24, 37}, estimatedIncome : {Undefined},
     customStateTaxRate : {Undefined, Some(0)},
     customLtcgTaxRate : {Undefined, Some(0)}, grants : {<< >>}]

InitISO ==
    /\ pc = "idle"
    /\ grant = NewGrant("RSU", [y |-> 2023, m |-> 1, d |-> 1], ShareUnit,
                        "standard_4y_quarterly")
    /\ client \in ISOClients
    /\ simulateSellAll = FALSE
    /\ now = 0
    /\ plannedExercises = << >>
    /\ schedule = << >>
    /\ status = NoStatus
    /\ rates = NoRates
    /\ taxableIncome = 0
    /\ filingStatus = "single"
    /\ tax = 0
    /\ PlannerMounted
    /\ isoArgs \in ISOArgs
    /\ scenario = [called |-> FALSE]
    /\ amt = [called |-> FALSE]
    /\ amtRoom = [called |-> FALSE]

CalculateISOScenarios ==
    /\ pc = "idle"
    /\ isoArgs.called
    /\ scenario' = calculateISOScenarios(isoArgs.shares, isoArgs.strikePrice,
                                         isoArgs.fmvAtExercise,
                                         isoArgs.salePrice, client,
                                         isoArgs.isQualified)
    /\ pc' = "calculateISOScenarios"
    /\ UNCHANGED <<sharesToExercise, strategyMode,
                   isoArgs, amt, amtRoom, grant, client, simulateSellAll, now,
                   plannedExercises, schedule, status, rates, taxableIncome,
                   filingStatus, tax>>

NextISO == CalculateISOScenarios

SpecISO == InitISO /\ [][NextISO]_vars

ScenarioReturned == pc = "calculateISOScenarios"

\* The quantities of a scenario, from the arguments.
ExerciseCost == isoArgs.shares * isoArgs.strikePrice
SaleProceeds == isoArgs.shares * isoArgs.salePrice
BargainElement ==
    Max(0, (isoArgs.fmvAtExercise - isoArgs.strikePrice) * isoArgs.shares)

\* C18: a qualified scenario has ordinaryIncome = 0, capitalGain =
\* max(0, shares x salePrice - shares x strike), amtPreference =
\* max(0, (fmvAtExercise - strike) x shares), federal tax = capitalGain x
\* fedLtcgRate, NIIT = capitalGain x 0.038, state tax = capitalGain x
\* stateRate, totalTax their sum, netProfit = saleProceeds - exerciseCost -
\* totalTax.
C18_QualifiedScenario ==
    (ScenarioReturned /\ isoArgs.isQualified) =>
        LET cg == Max(0, isoArgs.shares * isoArgs.salePrice
                         - isoArgs.shares * isoArgs.strikePrice)
            r == getEffectiveRates(client)
        IN  /\ scenario.ordinaryIncome = 0
            /\ scenario.capitalGain = cg
            /\ scenario.amtPreference = BargainElement
            /\ scenario.taxes.fedAmount = cg * r.fedLtcgRate
            /\ scenario.taxes.niitAmount = cg * ((38 * RateScale) \div 1000)
            /\ scenario.taxes.stateAmount = cg * r.stateRate
            /\ scenario.taxes.totalTax =
                  scenario.taxes.fedAmount + scenario.taxes.niitAmount
                  + scenario.taxes.stateAmount
            /\ scenario.netProfit =
                  (SaleProceeds - ExerciseCost) * RateScale
                  - scenario.taxes.totalTax

\* The worked example: 1000 shares, strike 10, FMV 50, sold at 100 by a
\* married CA client in the 37 bracket: total tax 34,380, net profit 55,620.
C18_Witness ==
    /\ ScenarioReturned
    /\ isoArgs = [called |-> TRUE, shares |-> 1000, strikePrice |-> 10,
                  fmvAtExercise |-> 50, salePrice |-> 100,
                  isQualified |-> TRUE]
    /\ client.state = "CA" /\ client.taxBracket = 37
    /\ ~IsDefined(client.customStateTaxRate)
    /\ ~IsDefined(client.customLtcgTaxRate)
    /\ scenario.capitalGain = 90000
    /\ scenario.taxes.totalTax = 34380 * RateScale
    /\ scenario.netProfit = 55620 * RateScale

\* C19: a disqualified scenario has ordinaryIncome = min(bargainElement,
\* saleProceeds - exerciseCost) taxed at bracket / 100 + stateRate,
\* capitalGain = max(0, saleProceeds - shares x fmvAtExercise) taxed at
\* fedLtcgRate + 0.038 + stateRate, amtPreference = 0 and netProfit =
\* saleProceeds - exerciseCost - totalTax.
C19_DisqualifiedScenario ==
    (ScenarioReturned /\ ~isoArgs.isQualified) =>
        LET oi == Min(BargainElement, SaleProceeds - ExerciseCost)
            cg == Max(0, SaleProceeds - isoArgs.shares * isoArgs.fmvAtExercise)
            r == getEffectiveRates(client)
            ordinaryRate == client.taxBracket * (RateScale \div 100) + r.stateRate
            gainRate == r.fedLtcgRate + (38 * RateScale) \div 1000 + r.stateRate
        IN  /\ scenario.ordinaryIncome = oi
            /\ scenario.capitalGain = cg
            /\ scenario.amtPreference = 0
            /\ scenario.taxes.totalTax = oi * ordinaryRate + cg * gainRate
            /\ scenario.netProfit =
                  (SaleProceeds - ExerciseCost) * RateScale
                  - scenario.taxes.totalTax

\* The worked example sold at once at the FMV of 50: total tax 20,560, net
\* profit 19,440.
C19_Witness ==
    /\ ScenarioReturned
    /\ isoArgs = [called |-> TRUE, shares |-> 1000, strikePrice |-> 10,
                  fmvAtExercise |-> 50, salePrice |-> 50,
                  isQualified |-> FALSE]
    /\ client.state = "CA" /\ client.taxBracket = 37
    /\ ~IsDefined(client.customStateTaxRate)
    /\ ~IsDefined(client.customLtcgTaxRate)
    /\ scenario.ordinaryIncome = 40000
    /\ scenario.capitalGain = 0
    /\ scenario.taxes.totalTax = 20560 * RateScale
    /\ scenario.netProfit = 19440 * RateScale

----------------------------------------------------------------------------
(* calculateAMTRoom: incomes, deductions and spreads are dollars; regularTax *)
(* and the tentative minimum tax are cents.                                  *)

TAX_YEAR_DISPLAY == 2026

PERSONAL_EXEMPTION_2026 == 5300

STANDARD_DEDUCTION_2026 == [single |-> 8300, married_joint |-> 16600]

AMT_PARAMS_2026 ==
    [single |-> [exemption |-> 64400, phaseout |-> 140300],
     married_joint |-> [exemption |-> 100500, phaseout |-> 280600]]

\* const step = 1000
step == 1000

\* The bound of while (spread < 10000000).
SpreadCap == 10000000

\* const threshold = 220700
threshold == 220700

\* client.estimatedIncome || 250000
DefaultIncome == 250000

\* new Date(x).getFullYear()
getFullYear(t) == ToISODate(t).y

\* The outer test alone: an event of the display tax year counts too.
CountsAsIncomeOrDisplayYear(vestYear, currentYear) ==
    vestYear = currentYear \/ vestYear = TAX_YEAR_DISPLAY

\* The two nested tests on an event's vestYear.
CountsAsIncome(vestYear, currentYear) ==
    (vestYear = currentYear \/ vestYear = TAX_YEAR_DISPLAY)
    /\ vestYear = currentYear

\* schedule.forEach from event i on: the gross value, in dollars, of the
\* events that vest in currentYear.
RECURSIVE ScheduleIncome(_, _, _)
ScheduleIncome(sched, i, currentYear) ==
    IF i > Len(sched) THEN 0
    ELSE (IF CountsAsIncome(getFullYear(ParseDate(sched[i].date)), currentYear)
          THEN sched[i].grossValue \div ShareUnit ELSE 0)
         + ScheduleIncome(sched, i + 1, currentYear)

\* client.grants.filter(g => g.type === 'RSU').forEach(...) from grant i on.
RECURSIVE ProjectedRSUIncome(_, _, _, _)
ProjectedRSUIncome(grants, i, c, t) ==
    IF i > Len(grants) THEN 0
    ELSE (IF grants[i].type = "RSU"
          THEN ScheduleIncome(generateVestingSchedule(grants[i], c, FALSE, t),
                              1, getFullYear(t))
          ELSE 0)
         + ProjectedRSUIncome(grants, i + 1, c, t)

\* TAX_BRACKETS_2026[st] with the limits in tens of dollars: the tax on an
\* income in tens of dollars then comes out in cents.
BracketsInTens(st) ==
    [i \in 1..Len(TAX_BRACKETS_2026[st]) |->
        [limit |-> TAX_BRACKETS_2026[st][i].limit \div 10,
         rate |-> TAX_BRACKETS_2026[st][i].rate]]

\* calculateProgressiveTax(regularTaxableIncome, status), in cents, for an
\* income that is a multiple of 10 dollars.
RegularTaxOf(income, st) == TaxLoop(BracketsInTens(st), 1, income \div 10, 0, 0)

\* The tentative minimum tax with the upper tier computed without the 26%
\* of the threshold below it.
TentativeMinimumTaxUpperTierOnly(st, totalGrossIncome, spread) ==
    LET params == AMT_PARAMS_2026[st]
        amti == totalGrossIncome + spread
        exemption ==
            IF amti > params.phaseout
            THEN Max(0, params.exemption - (amti - params.phaseout) \div 4)
            ELSE params.exemption
        amtBase == Max(0, amti - exemption)
    IN  IF amtBase <= threshold THEN amtBase * 26
        ELSE (amtBase - threshold) * 28

\* The tentative minimum tax the loop body computes at a spread, in cents;
\* totalGrossIncome and spread are multiples of 4 dollars.
TentativeMinimumTax(st, totalGrossIncome, spread) ==
    LET params == AMT_PARAMS_2026[st]
        amti == totalGrossIncome + spread
        exemption ==
            IF amti > params.phaseout
            THEN Max(0, params.exemption - (amti - params.phaseout) \div 4)
            ELSE params.exemption
        amtBase == Max(0, amti - exemption)
    IN  IF amtBase <= threshold THEN amtBase * 26
        ELSE threshold * 26 + (amtBase - threshold) * 28

\* The statements from baseIncome to the loop, given the projected RSU
\* income: the locals the loop and the result use.
AMTLocalsWith(c, projectedRSUIncome) ==
    LET st == c.filingStatus
        stdDeduction == STANDARD_DEDUCTION_2026[st]
        personalExemptions ==
            (IF st = "married_joint" THEN 2 ELSE 1) * PERSONAL_EXEMPTION_2026
        baseIncome == OrElse(c.estimatedIncome, DefaultIncome)
        totalGrossIncome == baseIncome + projectedRSUIncome
        estimatedStateTax == MulRate(totalGrossIncome, getEffectiveRates(c).stateRate)
        isItemizing == estimatedStateTax > stdDeduction
        effectiveDeduction ==
            IF isItemizing THEN estimatedStateTax ELSE stdDeduction
        regularTaxableIncome ==
            Max(0, totalGrossIncome - effectiveDeduction - personalExemptions)
    IN  [called |-> TRUE,
         status |-> st,
         stdDeduction |-> stdDeduction,
         personalExemptions |-> personalExemptions,
         projectedRSUIncome |-> projectedRSUIncome,
         baseIncome |-> baseIncome,
         totalGrossIncome |-> totalGrossIncome,
         estimatedStateTax |-> estimatedStateTax,
         isItemizing |-> isItemizing,
         effectiveDeduction |-> effectiveDeduction,
         regularTax |-> RegularTaxOf(regularTaxableIncome, st),
         spread |-> 0,
         tmt |-> 0,
         breakEvenSpread |-> 0,
         exited |-> FALSE,
         iterations |-> 0]

\* The statements before the loop.
AMTLocals(c, t) == AMTLocalsWith(c, ProjectedRSUIncome(c.grants, 1, c, t))

\* The loop body with spread += step left out.
LoopBodyStalled(a) ==
    LET tentativeTax == TentativeMinimumTax(a.status, a.totalGrossIncome, a.spread)
    IN  IF tentativeTax > a.regularTax
        THEN [a EXCEPT !.tmt = tentativeTax, !.breakEvenSpread = a.spread,
                       !.exited = TRUE, !.iterations = a.iterations + 1]
        ELSE [a EXCEPT !.tmt = tentativeTax, !.iterations = a.iterations + 1]

\* One execution of the while body: exited records the break, iterations
\* counts the executions.
LoopBody(a) ==
    LET tentativeTax == TentativeMinimumTax(a.status, a.totalGrossIncome, a.spread)
    IN  IF tentativeTax > a.regularTax
        THEN [a EXCEPT !.tmt = tentativeTax, !.breakEvenSpread = a.spread,
                       !.exited = TRUE, !.iterations = a.iterations + 1]
        ELSE [a EXCEPT !.tmt = tentativeTax, !.spread = a.spread + step,
                       !.iterations = a.iterations + 1]

\* The result with room = breakEvenSpread.
AMTResultAtBreakEven(a) ==
    [called |-> TRUE,
     room |-> Max(0, a.breakEvenSpread),
     regularTax |-> a.regularTax,
     projectedRSUIncome |-> a.projectedRSUIncome,
     baseIncome |-> a.baseIncome,
     stdDeduction |-> a.stdDeduction,
     personalExemptions |-> a.personalExemptions,
     effectiveDeduction |-> a.effectiveDeduction,
     isItemizing |-> a.isItemizing,
     estimatedStateTax |-> a.estimatedStateTax]

\* The returned object.
AMTResult(a) ==
    [called |-> TRUE,
     room |-> Max(0, a.breakEvenSpread - step),
     regularTax |-> a.regularTax,
     projectedRSUIncome |-> a.projectedRSUIncome,
     baseIncome |-> a.baseIncome,
     stdDeduction |-> a.stdDeduction,
     personalExemptions |-> a.personalExemptions,
     effectiveDeduction |-> a.effectiveDeduction,
     isItemizing |-> a.isItemizing,
     estimatedStateTax |-> a.estimatedStateTax]

----------------------------------------------------------------------------
(* Specification of calculateAMTRoom: one step before the loop, one per    *)
(* execution of the loop body, one for the return.                         *)

\* Quarterly RSU grants of 3200 shares at $50 (every tranche is $10,000), one
\* vesting through 2025 and into 2026, one granted in the middle of 2025; an
\* ISO grant, which the RSU filter drops.
AMTGrantLists ==
    {<< >>,
     << NewGrant("RSU", [y |-> 2022, m |-> 1, d |-> 15], 3200 * ShareUnit,
                 "standard_4y_quarterly") >>,
     << NewGrant("ISO", [y |-> 2023, m |-> 1, d |-> 15], 3200 * ShareUnit,
                 "standard_4y_quarterly"),
        NewGrant("RSU", [y |-> 2025, m |-> 6, d |-> 15], 3200 * ShareUnit,
                 "standard_4y_quarterly") >>}

\* Estimated incomes, multiples of $10,000: none and 0 (both read as the
\* default), incomes below and above the AMT exemption phase-out.
AMTIncomes == {Undefined, Some(0), Some(50000), Some(500000), Some(1000000)}

AMTClients ==
    [state : {"CA", "TX"}, filingStatus : FilingStatuses, taxBracket : {37},
     estimatedIncome : AMTIncomes, customStateTaxRate : {Undefined, Some(0)},
     customLtcgTaxRate : {Undefined}, grants : AMTGrantLists]
    \cup
    \* An income of $30,000,000 with no state tax to deduct: the regular tax
    \* stays above the tentative minimum tax for every spread below the cap.
    [state : {"CA"}, filingStatus : FilingStatuses, taxBracket : {37},
     estimatedIncome : {Some(30000000)}, customStateTaxRate : {Some(0)},
     customLtcgTaxRate : {Undefined}, grants : {<< >>}]

InitAMT ==
    /\ pc = "idle"
    /\ grant = NewGrant("RSU", [y |-> 2023, m |-> 1, d |-> 1], ShareUnit,
                        "standard_4y_quarterly")
    /\ client \in AMTClients
    /\ simulateSellAll = FALSE
    /\ now \in Instants
    /\ plannedExercises = << >>
    /\ schedule = << >>
    /\ status = NoStatus
    /\ rates = NoRates
    /\ taxableIncome = 0
    /\ filingStatus = "single"
    /\ tax = 0
    /\ PlannerMounted
    /\ isoArgs = [called |-> FALSE]
    /\ scenario = [called |-> FALSE]
    /\ amt = [called |-> FALSE]
    /\ amtRoom = [called |-> FALSE]

\* The statements up to the while loop.
AMTBegin ==
    /\ pc = "idle"
    /\ amt' = AMTLocals(client, now)
    /\ pc' = "amtLoop"
    /\ UNCHANGED <<sharesToExercise, strategyMode,
                   isoArgs, scenario, amtRoom, grant, client, simulateSellAll,
                   now, plannedExercises, schedule, status, rates,
                   taxableIncome, filingStatus, tax>>

\* while (spread < 10000000) { ... }: one execution of the body.
AMTIterate ==
    /\ pc = "amtLoop"
    /\ ~amt.exited
    /\ amt.spread < SpreadCap
    /\ amt' = LoopBody(amt)
    /\ UNCHANGED <<sharesToExercise, strategyMode,
                   pc, isoArgs, scenario, amtRoom, grant, client,
                   simulateSellAll, now, plannedExercises, schedule, status,
                   rates, taxableIncome, filingStatus, tax>>

\* The return, after the break or after the loop condition fails.
AMTReturn ==
    /\ pc = "amtLoop"
    /\ amt.exited \/ ~(amt.spread < SpreadCap)
    /\ amtRoom' = AMTResult(amt)
    /\ pc' = "calculateAMTRoom"
    /\ UNCHANGED <<sharesToExercise, strategyMode,
                   isoArgs, scenario, amt, grant, client, simulateSellAll, now,
                   plannedExercises, schedule, status, rates, taxableIncome,
                   filingStatus, tax>>

NextAMT == AMTBegin \/ AMTIterate \/ AMTReturn

\* Once the loop is entered the function runs on to its return: a loop step
\* or the return that can be taken is taken.
SpecAMT == InitAMT /\ [][NextAMT]_vars /\ WF_vars(AMTIterate \/ AMTReturn)

AMTReturned == pc = "calculateAMTRoom"

\* TMT at a spread against the regularTax of the call.
TMTExceeds(spread) ==
    TentativeMinimumTax(amt.status, amt.totalGrossIncome, spread) > amt.regularTax

\* C15: the search always terminates: the loop body runs at most
\* cap / step = 10,000 times, spread grows by exactly step in every
\* execution that does not exit, and a call that has started returns.
C15_SearchTerminates ==
    /\ [](amt.called => amt.iterations <= SpreadCap \div step)
    /\ [][(pc = "amtLoop" /\ pc' = "amtLoop" /\ ~amt'.exited)
             => amt'.spread = amt.spread + step]_vars
    /\ (pc = "amtLoop") ~> AMTReturned

\* A call whose loop ran all 10,000 times without a break.
C15_Witness ==
    /\ AMTReturned
    /\ ~amt.exited
    /\ amt.iterations = SpreadCap \div step
    /\ amt.spread = SpreadCap

\* C16 as stated: for every client TMT at spread = room does not exceed
\* regularTax, and when a breakeven was found TMT at room + step exceeds it.
C16_RoomIsSafe ==
    AMTReturned =>
        /\ ~TMTExceeds(amtRoom.room)
        /\ amt.exited => TMTExceeds(amtRoom.room + step)

\* C16 amended: TMT at spread = room does not exceed regularTax unless TMT
\* already exceeds it at spread 0, and then room is 0; when a breakeven was
\* found, TMT at room + step exceeds regularTax.
C16_RoomIsSafeUnlessAlreadyInAMT ==
    AMTReturned =>
        /\ ~TMTExceeds(0) => ~TMTExceeds(amtRoom.room)
        /\ TMTExceeds(0) => amtRoom.room = 0
        /\ amt.exited => TMTExceeds(amtRoom.room + step)

\* A breakeven found after several steps: a positive room.
C16_Witness ==
    /\ AMTReturned
    /\ amt.exited
    /\ amt.breakEvenSpread > step
    /\ amtRoom.room = amt.breakEvenSpread - step
    /\ ~TMTExceeds(amtRoom.room)
    /\ TMTExceeds(amtRoom.room + step)

\* C17: when no spread below the cap gives TMT > regularTax the loop
\* exhausts and the returned room is the capped value cap - step.
C17_ExhaustedRoomIsCapped ==
    (AMTReturned /\ ~amt.exited) => amtRoom.room = SpreadCap - step

----------------------------------------------------------------------------
(* getGrantStatus called again and again as the clock advances *)

\* new Date() of a later call: the clock has moved on to a later instant.
AdvanceClock ==
    /\ pc = "getGrantStatus"
    /\ \E t \in StatusInstants : t > now /\ now' = t
    /\ pc' = "idle"
    /\ UNCHANGED <<sharesToExercise, strategyMode,
                   isoArgs, scenario, amt, amtRoom, grant, client,
                   simulateSellAll, plannedExercises, schedule, status, rates,
                   taxableIncome, filingStatus, tax>>

InitStatusClock == InitStatus /\ Len(plannedExercises) <= 1

NextStatusClock == GetGrantStatus \/ AdvanceClock

SpecStatusClock == InitStatusClock /\ [][NextStatusClock]_vars

\* C21: the schedule is partitioned at now: vestedTotal + unvested =
\* grant.totalShares at every instant, and vestedTotal never decreases from
\* one call to a later one.
C21_PartitionAtNow ==
    /\ [](pc = "getGrantStatus" =>
            status.vestedTotal + status.unvested = grant.totalShares)
    /\ [][status'.vestedTotal >= status.vestedTotal]_vars

\* A call at the very instant of a vesting event, with part of the grant
\* vested.
C21_Witness ==
    /\ pc = "getGrantStatus"
    /\ now > ParseDate([y |-> 2023, m |-> 1, d |-> 1])
    /\ \E i \in 1..Len(generateVestingSchedule(grant, DummyClient, FALSE, now)) :
          ParseDate(generateVestingSchedule(grant, DummyClient, FALSE, now)[i].date) = now
    /\ status.vestedTotal > 0
    /\ status.unvested > 0
    /\ status.vestedTotal + status.unvested = grant.totalShares

\* The shares of the events generateVestingSchedule flags isPast at now.
PastShares ==
    SumShares(SelectSeq(generateVestingSchedule(grant, DummyClient, FALSE, now),
                        LAMBDA e : e.isPast))

\* C25: at the same instant an event is counted in vestedTotal exactly when
\* generateVestingSchedule flags it isPast, an event dated exactly at now
\* included.
C25_VestedIffPast ==
    pc = "getGrantStatus" => status.vestedTotal = PastShares

----------------------------------------------------------------------------
(* calculateAMTRoom: the incomes it starts from and the shape of the TMT *)

\* C22: baseIncome is the client's estimatedIncome whenever the field is
\* present, an estimated income of 0 included, and the default 250,000 only
\* when the field is absent.
C22_BaseIncomeWhenPresent ==
    AMTReturned =>
        amtRoom.baseIncome =
            IF IsDefined(client.estimatedIncome)
            THEN ValueOf(client.estimatedIncome) ELSE 250000

\* The gross value, in dollars, of the events of client.grants[i] dated in
\* the calendar year of now, for an RSU grant; 0 for any other grant.
GrantIncomeThisYear(i) ==
    IF client.grants[i].type # "RSU" THEN 0
    ELSE LET thisYear ==
                 SelectSeq(generateVestingSchedule(client.grants[i], client,
                                                   FALSE, now),
                           LAMBDA e : e.date.y = CivilFromDays(now \div TicksPerDay).y)
         IN  IF thisYear = << >> THEN 0
             ELSE Len(thisYear) * (thisYear[1].grossValue \div ShareUnit)

C26_TMTNonDecreasing ==
    AMTReturned =>
        /\ \A k \in 0..(SpreadCap \div step - 1) :
              TentativeMinimumTax(amt.status, amt.totalGrossIncome, k * step)
              <= TentativeMinimumTax(amt.status, amt.totalGrossIncome,
                                     (k + 1) * step)
        /\ (amt.exited /\ amt.breakEvenSpread > 0) =>
              \A k \in 0..(amtRoom.room \div step) : ~TMTExceeds(k * step)

\* A breakeven past the spread at which the AMT base crosses the 26% / 28%
\* threshold and the exemption is phased out.
C26_Witness ==
    /\ AMTReturned
    /\ amt.exited
    /\ amtRoom.room >= 100 * step
    /\ amt.totalGrossIncome + amtRoom.room > AMT_PARAMS_2026[amt.status].phaseout
    /\ ~TMTExceeds(amtRoom.room)

----------------------------------------------------------------------------
(* calculateISOScenarios: signs and the split of the gain *)

\* C27: with non-negative shares, prices and rates no scenario reports a
\* negative amount: ordinaryIncome, capitalGain, fedAmount, stateAmount,
\* niitAmount and totalTax are all >= 0, qualified or not, a sale below the
\* strike included.
C27_NoNegativeAmounts ==
    ScenarioReturned =>
        /\ scenario.ordinaryIncome >= 0
        /\ scenario.capitalGain >= 0
        /\ scenario.taxes.fedAmount >= 0
        /\ scenario.taxes.stateAmount >= 0
        /\ scenario.taxes.niitAmount >= 0
        /\ scenario.taxes.totalTax >= 0

\* C28: in a disqualified disposition with saleProceeds >= exerciseCost the
\* taxed amounts add up to the actual gain: ordinaryIncome + capitalGain =
\* saleProceeds - exerciseCost, an FMV at exercise below the strike included.
C28_GainDecomposed ==
    (ScenarioReturned /\ ~isoArgs.isQualified /\ SaleProceeds >= ExerciseCost)
        => scenario.ordinaryIncome + scenario.capitalGain
             = SaleProceeds - ExerciseCost

----------------------------------------------------------------------------
(* calculateEvent: conservation of shares and value *)

\* The schedule of the same call with simulateSellAll the other way.
OtherModeSchedule ==
    generateVestingSchedule(grant, client, ~simulateSellAll, now)

\* C29: for every RSU event with price > 0 and an elected rate of 0..100%,
\* netShares + sharesSoldToCover = shares and netValue + withholdingAmount
\* = grossValue in both modes, so netValue is the same with simulateSellAll
\* true and false.
C29_SharesAndValueConserved ==
    (ReturnedRSU /\ grant.currentPrice > 0) =>
        LET other == OtherModeSchedule
        IN  \A k \in 1..Len(schedule) :
                /\ schedule[k].netShares + schedule[k].sharesSoldToCover
                      = schedule[k].shares
                /\ schedule[k].netValue + schedule[k].withholdingAmount
                      = schedule[k].grossValue
                /\ other[k].netValue = schedule[k].netValue

\* Everything sold at a 37% elected rate: part of the value withheld, the
\* rest kept as cash.
C29_Witness ==
    /\ ReturnedRSU
    /\ simulateSellAll
    /\ grant.currentPrice = 50
    /\ grant.withholdingRate = Some(37)
    /\ \E e \in Events :
          /\ e.sharesSoldToCover = e.shares
          /\ e.withholdingAmount > 0
          /\ e.netValue > 0
          /\ e.netValue < e.grossValue

----------------------------------------------------------------------------
(* ISOPlanner: handleSave, and ClientDetail's handleSavePlan.  status is    *)
(* the planner's grantStatus memo, plannedExercises is                       *)
(* client.plannedExercises.                                                  *)

\* handleSave without the test against the available shares.
handleSaveUnchecked(selectedGrant, grantStatus, shares, mode, t) ==
    LET strike == OrElse(selectedGrant.strikePrice, 0)
    IN  Some([id |-> "plan",
              grantId |-> selectedGrant.id,
              shares |-> shares,
              exerciseDate |-> ToISODate(t),
              exercisePrice |-> strike,
              fmvAtExercise |-> selectedGrant.currentPrice,
              type |-> "ISO",
              amtExposure |->
                  IF mode = "buy_hold"
                  THEN (selectedGrant.currentPrice - strike) * shares ELSE 0,
              estimatedCost |-> shares * strike])

\* handleSave: the plan handed to onSavePlan, or none after the alert.
handleSave(selectedGrant, grantStatus, shares, mode, t) ==
    LET strike == OrElse(selectedGrant.strikePrice, 0)
    IN  IF shares > grantStatus.available THEN Undefined
        ELSE Some([id |-> "plan",
                   grantId |-> selectedGrant.id,
                   shares |-> shares,
                   exerciseDate |-> ToISODate(t),
                   exercisePrice |-> strike,
                   fmvAtExercise |-> selectedGrant.currentPrice,
                   type |-> "ISO",
                   amtExposure |->
                       IF mode = "buy_hold"
                       THEN (selectedGrant.currentPrice - strike) * shares
                       ELSE 0,
                   estimatedCost |-> shares * strike])

\* handleSavePlan: plannedExercises: [...(client.plannedExercises || []), plan]
handleSavePlan(planned, plan) == Append(planned, plan)

\* The effect on a change of grantStatus.available:
\* Math.min(1000, available), or 0 when that is not positive.
DefaultShares(available) ==
    IF Min(1000 * ShareUnit, available) > 0
    THEN Min(1000 * ShareUnit, available) ELSE 0

----------------------------------------------------------------------------
(* Specification of the ISOPlanner save-plan flow *)

\* The most planned exercises a client accumulates.
MaxPlans == 2

\* ISO grants of 100 shares at a current price of $50: strike below the
\* price, above it, and none.
PlannerGrants ==
    {[NewGrant("ISO", [y |-> 2024, m |-> 2, d |-> 29], 100 * ShareUnit, sched)
         EXCEPT !.strikePrice = strike] :
        sched \in VestingSchedules, strike \in {Undefined, Some(10), Some(60)}}

\* The instant of the first vesting event, and a later instant between two
\* vesting events.
PlannerInstants ==
    {ParseDate([y |-> 2025, m |-> 3, d |-> 1]),
     ParseDate([y |-> 2026, m |-> 6, d |-> 15]) + 1}

\* Values typed into the number field: negative, none, within the available
\* shares, beyond them.
ShareInputs == {-1 * ShareUnit, 0, 5 * ShareUnit, 200 * ShareUnit}

StrategyModes == {"buy_hold", "cashless"}

\* The planner mounted for a client without planned exercises: the memo and
\* the effect have run.
InitPlanner ==
    /\ pc = "idle"
    /\ grant \in PlannerGrants
    /\ client = DummyClient
    /\ simulateSellAll = FALSE
    /\ now \in PlannerInstants
    /\ plannedExercises = << >>
    /\ schedule = << >>
    /\ status = getGrantStatus(grant, plannedExercises, now)
    /\ rates = NoRates
    /\ taxableIncome = 0
    /\ filingStatus = "single"
    /\ tax = 0
    /\ NoScenarioNoRoom
    /\ sharesToExercise = DefaultShares(status.available)
    /\ strategyMode = "buy_hold"

\* onChange of the number field: setSharesToExercise(parseFloat(value)).
SetSharesToExercise ==
    /\ \E n \in ShareInputs : sharesToExercise' = n
    /\ UNCHANGED <<pc, grant, client, simulateSellAll, now, plannedExercises,
                   schedule, status, rates, taxableIncome, filingStatus, tax,
                   isoArgs, scenario, amt, amtRoom, strategyMode>>

\* The Max button: setSharesToExercise(grantStatus.available).
SetSharesToAvailable ==
    /\ sharesToExercise' = status.available
    /\ UNCHANGED <<pc, grant, client, simulateSellAll, now, plannedExercises,
                   schedule, status, rates, taxableIncome, filingStatus, tax,
                   isoArgs, scenario, amt, amtRoom, strategyMode>>

SetStrategyMode ==
    /\ \E mode \in StrategyModes : strategyMode' = mode
    /\ UNCHANGED <<pc, grant, client, simulateSellAll, now, plannedExercises,
                   schedule, status, rates, taxableIncome, filingStatus, tax,
                   isoArgs, scenario, amt, amtRoom, sharesToExercise>>

\* handleSave stopped by the alert: nothing is saved.
HandleSaveRejected ==
    /\ handleSave(grant, status, sharesToExercise, strategyMode, now) = Undefined
    /\ pc' = "handleSaveRejected"
    /\ UNCHANGED <<grant, client, simulateSellAll, now, plannedExercises,
                   schedule, status, rates, taxableIncome, filingStatus, tax,
                   isoArgs, scenario, amt, amtRoom, sharesToExercise,
                   strategyMode>>

\* handleSave, handleSavePlan and the render that follows: the plan is
\* appended, grantStatus is computed again, and the effect resets
\* sharesToExercise when available has changed.
HandleSaveAccepted ==
    /\ Len(plannedExercises) < MaxPlans
    /\ handleSave(grant, status, sharesToExercise, strategyMode, now) # Undefined
    /\ plannedExercises' =
          handleSavePlan(plannedExercises,
                         ValueOf(handleSave(grant, status, sharesToExercise,
                                            strategyMode, now)))
    /\ status' = getGrantStatus(grant, plannedExercises', now)
    /\ sharesToExercise' =
          IF status'.available # status.available
          THEN DefaultShares(status'.available) ELSE sharesToExercise
    /\ pc' = "handleSave"
    /\ UNCHANGED <<grant, client, simulateSellAll, now, schedule, rates,
                   taxableIncome, filingStatus, tax, isoArgs, scenario, amt,
                   amtRoom, strategyMode>>

HandleSave == HandleSaveRejected \/ HandleSaveAccepted

NextPlanner ==
    \/ SetSharesToExercise
    \/ SetSharesToAvailable
    \/ SetStrategyMode
    \/ HandleSave

SpecPlanner == InitPlanner /\ [][NextPlanner]_vars

\* The plan a step has just appended.
NewPlan == plannedExercises'[Len(plannedExercises')]

PlanSaved == Len(plannedExercises') = Len(plannedExercises) + 1

\* C24: a plan created by handleSave records estimatedCost = shares x
\* strike; amtExposure is the bargain element max(0, (fmv - strike) x
\* shares) of the exercised shares under buy-and-hold and 0 under cashless,
\* and is never negative.
C24_PlanRecordsExposure ==
    [][PlanSaved =>
         /\ NewPlan.estimatedCost = sharesToExercise * OrElse(grant.strikePrice, 0)
         /\ NewPlan.amtExposure =
               IF strategyMode = "buy_hold"
               THEN Max(0, (grant.currentPrice - OrElse(grant.strikePrice, 0))
                           * sharesToExercise)
               ELSE 0
         /\ NewPlan.amtExposure >= 0]_vars

====
